---- MODULE Spec2Model ----
(***************************************************************************)
(* Model of the hydroponics rig drivers:                                   *)
(*   - the MCP23017 relay board (high_power_board.py) and GPIO board       *)
(*     (mid_power_board.py): single-port read/modify/write of the 16-bit   *)
(*     device registers;                                                   *)
(*   - the Atlas EZO probe sessions (EC, RTD, pH, pressure, flow): the     *)
(*     detect / configure / operate lifecycle;                             *)
(*   - the peristaltic pump address changer (ezo_peristaltic_pump.py);     *)
(*   - the proportional controller (controller.py).                        *)
(* The device registers and the I2C bus are the environment: every         *)
(* transport access may raise, chosen per call.                            *)
(***************************************************************************)
EXTENDS Integers, Sequences, FiniteSets, TLC

VARIABLES
    board,       \* which board class the object is: "relay" or "gpio"
    gpio,        \* device GPIO (value) register, 16 bits
    iodir,       \* device IODIR (direction) register, 16 bits
    gppu,        \* device GPPU (pull-up) register, 16 bits
    rcall,       \* the last completed board call: arguments, result, registers before it
    rprev,       \* the call before rcall: arguments and result
    rn,          \* number of board calls made
    kind,        \* which probe class the session is: "EC", "RTD", "PH", "PRES", "FLO"
    address,     \* self._address
    sensor,      \* self._sensor: NoSensor, or the address the AtlasI2C handle is bound to
    configured,  \* self._sensor_configured
    scall,       \* the last completed session call: arguments, result, transport log
    sprev,       \* the call before scall: name and result
    sn,          \* number of session calls made
    ports_to_test,  \* test_port_combinations: the argument
    val,         \* test_port_combinations: the loop variable
    passed,      \* test_port_combinations: values read back as written
    failed,      \* test_port_combinations: values read back differently
    total_tests, \* test_port_combinations: iterations that reached the comparison
    callers,     \* two concurrent callers of _set_bit: request, position, local bits
    mutex,       \* the caller holding the common mutex, or NoCaller
    locking,     \* whether the callers wrap _set_bit in the common mutex
    i2c_address, \* pump: self._i2c_address
    device,      \* pump: self._device: NoDevice, or the address the handle is bound to
    detected_i2c_devices,  \* pump: self._detected_i2c_devices
    pcall,       \* pump: the last completed call: arguments, result, transport log
    pn,          \* pump: number of calls made
    controller,  \* the Controller object: its attributes, set by __init__
    ccall        \* the last completed compute call: measurement and result

regVars == <<board, gpio, iodir, gppu, rcall, rprev, rn>>

sessVars == <<kind, address, sensor, configured, scall, sprev, sn>>

testVars == <<ports_to_test, val, passed, failed, total_tests>>

raceVars == <<callers, mutex, locking>>

pumpVars == <<i2c_address, device, detected_i2c_devices, pcall, pn>>

ctlVars == <<controller, ccall>>

vars == <<board, gpio, iodir, gppu, rcall, rprev, rn,
          kind, address, sensor, configured, scall, sprev, sn,
          ports_to_test, val, passed, failed, total_tests,
          callers, mutex, locking,
          i2c_address, device, detected_i2c_devices, pcall, pn,
          controller, ccall>>

-----------------------------------------------------------------------------
(* Bounds *)

\* number of board calls in one behaviour
MaxBoardCalls == 2

\* number of calls on one probe session in one behaviour
MaxSessionCalls == 2

\* largest ports_to_test given to test_port_combinations (main() gives 5)
MaxPortsToTest == 5

-----------------------------------------------------------------------------
(* Program constants *)

\* self.port_count = 16
port_count == 16

Ports == 0 .. (port_count - 1)

\* values the 16-bit GPIO register starts with: 0xA5A5 and 0x5A5A, so that
\* every port starts set in one behaviour and clear in another
StartValues == {42405, 23130}

\* IODIR and GPPU of the chip when the board object is created (all inputs,
\* no pull-ups); the relay board then writes IODIR = 0x0000
AllInputs == 65535
AllOutputs == 0
NoPullUps == 0

\* which transport access of a call raises
Faults == {"none", "read", "write"}

-----------------------------------------------------------------------------
(* Python integer bit operations on non-negative integers *)

\* x << n
ShiftLeft(x, n) == x * (2 ^ n)

\* x >> n
ShiftRight(x, n) == x \div (2 ^ n)

RECURSIVE BitOr(_, _)
\* a | b
BitOr(a, b) ==
    IF a = 0 THEN b
    ELSE IF b = 0 THEN a
    ELSE 2 * BitOr(a \div 2, b \div 2)
         + (IF (a % 2 = 1) \/ (b % 2 = 1) THEN 1 ELSE 0)

RECURSIVE BitAnd(_, _)
\* a & b
BitAnd(a, b) ==
    IF a = 0 \/ b = 0 THEN 0
    ELSE 2 * BitAnd(a \div 2, b \div 2)
         + (IF (a % 2 = 1) /\ (b % 2 = 1) THEN 1 ELSE 0)

RECURSIVE BitAndNot(_, _)
\* a & ~m  (~m has every bit of m inverted, to unbounded width)
BitAndNot(a, m) ==
    IF a = 0 THEN 0
    ELSE 2 * BitAndNot(a \div 2, m \div 2)
         + (IF (a % 2 = 1) /\ (m % 2 = 0) THEN 1 ELSE 0)

\* bit p of word w, as a boolean (used by the properties only)
BitOf(w, p) == (w \div (2 ^ p)) % 2 = 1

-----------------------------------------------------------------------------
(* Register transport: self._board.gpio *)

\* a read served from what the register held before the latest change
read_gpio_stale(fault) ==
    IF fault = "read"
    THEN [err |-> TRUE, bits |-> 0]
    ELSE [err |-> FALSE, bits |-> rcall.gpio]

\* a read whose exception is not reported: the caller gets 0x0000 as bits
read_gpio_unreported(fault) ==
    IF fault = "read"
    THEN [err |-> FALSE, bits |-> 0]
    ELSE [err |-> FALSE, bits |-> gpio]

\* _read_gpio: (err, bits); bits is 0x0000 when the read raises
read_gpio(fault) ==
    IF fault = "read"
    THEN [err |-> TRUE, bits |-> 0]
    ELSE [err |-> FALSE, bits |-> gpio]

\* a write that the device does not take
write_gpio_dropped(bits, fault) ==
    IF fault = "write"
    THEN [err |-> TRUE, reg |-> gpio]
    ELSE [err |-> FALSE, reg |-> gpio]

\* _write_gpio: (err, register after); the device keeps 16 bits
write_gpio(bits, fault) ==
    IF fault = "write"
    THEN [err |-> TRUE, reg |-> gpio]
    ELSE [err |-> FALSE, reg |-> bits % (2 ^ port_count)]

\* set_bit with the mask not shifted to the port
set_bit_word_unshifted(bits, port, bit) ==
    IF bit
    THEN BitOr(bits, 1)
    ELSE BitAndNot(bits, 1)

\* the modify step of _set_bit
set_bit_word(bits, port, bit) ==
    IF bit
    THEN BitOr(bits, ShiftLeft(1, port))
    ELSE BitAndNot(bits, ShiftLeft(1, port))

\* the extract step of _get_bit: bool((bits >> port) & 0x0001)
get_bit_word(bits, port) == BitAnd(ShiftRight(bits, port), 1) # 0

\* _set_bit: result [err, raised, reg (GPIO register after), reads, writes];
\* 0x0001 << port raises ValueError (negative shift count) when port < 0,
\* after the register was read, and nothing catches it
set_bit(port, bit, fault) ==
    LET r == read_gpio(fault) IN
    IF r.err
    THEN [err |-> TRUE, raised |-> FALSE, reg |-> gpio, reads |-> 1, writes |-> 0]
    ELSE IF port < 0
    THEN [err |-> TRUE, raised |-> TRUE, reg |-> gpio, reads |-> 1, writes |-> 0]
    ELSE write_gpio(set_bit_word(r.bits, port, bit), fault)
         @@ [raised |-> FALSE, reads |-> 1, writes |-> 1]

\* _get_bit: result [err, raised, bit, reads]; bit is False when the read
\* raises; bits >> port raises ValueError when port < 0
get_bit(port, fault) ==
    LET r == read_gpio(fault) IN
    IF r.err
    THEN [err |-> TRUE, raised |-> FALSE, bit |-> FALSE, reads |-> 1]
    ELSE IF port < 0
    THEN [err |-> TRUE, raised |-> TRUE, bit |-> FALSE, reads |-> 1]
    ELSE [err |-> FALSE, raised |-> FALSE, bit |-> get_bit_word(r.bits, port),
          reads |-> 1]

-----------------------------------------------------------------------------
(* Call records *)

\* fault: the transport access that raised during the call; raised: an
\* exception left the call; printed: the error was printed, not returned
NoCall ==
    [op |-> "none", port |-> 0, bit |-> FALSE, err |-> FALSE, ret |-> FALSE,
     gpio |-> 0, iodir |-> 0, gppu |-> 0, reads |-> 0, writes |-> 0,
     fault |-> "none", raised |-> FALSE, printed |-> FALSE]

NoPrev == [op |-> "none", port |-> 0, bit |-> FALSE, err |-> FALSE, ret |-> FALSE]

\* what rprev keeps of a call record
Lite(c) == [op |-> c.op, port |-> c.port, bit |-> c.bit, err |-> c.err, ret |-> c.ret]

\* a call that writes the GPIO register through _set_bit
SetCall(op, port, bit, fault) ==
    /\ rn < MaxBoardCalls
    /\ \E s \in {set_bit(port, bit, fault)} :
        /\ gpio' = s.reg
        /\ rcall' = [op |-> op, port |-> port, bit |-> bit, err |-> s.err,
                     ret |-> FALSE, gpio |-> gpio, iodir |-> iodir, gppu |-> gppu,
                     reads |-> s.reads, writes |-> s.writes,
                     fault |-> fault, raised |-> s.raised, printed |-> FALSE]
    /\ rprev' = Lite(rcall)
    /\ rn' = rn + 1
    /\ UNCHANGED <<board, iodir, gppu>>
    /\ UNCHANGED <<sessVars, testVars, raceVars, pumpVars, ctlVars>>

\* a call that reads one bit through _get_bit; negate: the call returns not bit
GetCall(op, port, negate, fault) ==
    /\ rn < MaxBoardCalls
    /\ \E g \in {get_bit(port, fault)} :
        rcall' = [op |-> op, port |-> port, bit |-> FALSE, err |-> g.err,
                  ret |-> IF g.err THEN FALSE ELSE (IF negate THEN ~g.bit ELSE g.bit),
                  gpio |-> gpio, iodir |-> iodir, gppu |-> gppu,
                  reads |-> g.reads, writes |-> 0,
                  fault |-> fault, raised |-> g.raised, printed |-> FALSE]
    /\ rprev' = Lite(rcall)
    /\ rn' = rn + 1
    /\ UNCHANGED <<board, gpio, iodir, gppu>>
    /\ UNCHANGED <<sessVars, testVars, raceVars, pumpVars, ctlVars>>

\* a call that writes the whole IODIR register
DirCall(op, bits, fault) ==
    /\ rn < MaxBoardCalls
    /\ iodir' = IF fault = "write" THEN iodir ELSE bits % (2 ^ port_count)
    /\ rcall' = [op |-> op, port |-> 0, bit |-> FALSE, err |-> (fault = "write"),
                 ret |-> FALSE, gpio |-> gpio, iodir |-> iodir, gppu |-> gppu,
                 reads |-> 0, writes |-> 1,
                 fault |-> fault, raised |-> FALSE, printed |-> FALSE]
    /\ rprev' = Lite(rcall)
    /\ rn' = rn + 1
    /\ UNCHANGED <<board, gpio, gppu>>
    /\ UNCHANGED <<sessVars, testVars, raceVars, pumpVars, ctlVars>>

\* _set_ports_as_output: (err, IODIR register after)
set_ports_as_output(fault) ==
    IF fault = "write"
    THEN [err |-> TRUE, reg |-> AllInputs]
    ELSE [err |-> FALSE, reg |-> AllOutputs]

\* no self-test is running
NoTest ==
    /\ ports_to_test = 0 /\ val = 0
    /\ passed = 0 /\ failed = 0 /\ total_tests = 0

NoCaller == 0

\* no concurrent callers
NoRace == callers = <<>> /\ mutex = NoCaller /\ locking = FALSE

\* no probe session
NoSession ==
    /\ kind = "none"
    /\ address = 0 /\ sensor = 0 /\ configured = FALSE
    /\ scall = [op |-> "none"]
    /\ sprev = [op |-> "none"]
    /\ sn = 0

\* self._device = None
NoDevice == 0

\* no pump object
NoPump ==
    /\ i2c_address = 0 /\ device = NoDevice /\ detected_i2c_devices = {}
    /\ pcall = [op |-> "none"]
    /\ pn = 0

\* no controller object
NoController == controller = [unit_name |-> "none"] /\ ccall = [op |-> "none"]

\* MCP23017_RelayBoard.__init__: err, message = self._set_ports_as_output();
\* if err: print(message).  MCP23017_GpioBoard.__init__ touches no register.
InitBoard ==
    /\ board \in {"relay", "gpio"}
    /\ gpio \in StartValues
    /\ gppu = NoPullUps
    /\ \E fault \in {"none", "write"} :
        /\ board = "gpio" => fault = "none"
        /\ \E o \in {set_ports_as_output(fault)} :
            /\ iodir = IF board = "relay" THEN o.reg ELSE AllInputs
            /\ rcall = [NoCall EXCEPT !.op = "init", !.iodir = AllInputs,
                                      !.fault = fault,
                                      !.writes = IF board = "relay" THEN 1 ELSE 0,
                                      !.printed = (board = "relay" /\ o.err)]
    /\ rprev = NoPrev
    /\ rn = 0
    /\ NoSession
    /\ NoTest
    /\ NoRace
    /\ NoPump
    /\ NoController

-----------------------------------------------------------------------------
(* RegisterPort layer of both boards: _set_bit and _get_bit called directly *)

Reg_set_bit ==
    \E port \in Ports, bit \in BOOLEAN, fault \in Faults :
        SetCall("set_bit", port, bit, fault)

Reg_get_bit ==
    \E port \in Ports, fault \in {"none", "read"} :
        GetCall("get_bit", port, FALSE, fault)

\* the board object was constructed without a transport fault
InitReg == InitBoard /\ rcall.fault = "none"

NextReg == Reg_set_bit \/ Reg_get_bit

SpecReg == InitReg /\ [][NextReg]_vars

-----------------------------------------------------------------------------
(* MCP23017_RelayBoard public operations *)

Relay_close ==
    \E port \in Ports, fault \in Faults : SetCall("close", port, FALSE, fault)

Relay_open ==
    \E port \in Ports, fault \in Faults : SetCall("open", port, TRUE, fault)

\* returns bit
Relay_is_closed ==
    \E port \in Ports, fault \in {"none", "read"} :
        GetCall("is_closed", port, FALSE, fault)

\* returns not bit
Relay_is_open ==
    \E port \in Ports, fault \in {"none", "read"} :
        GetCall("is_open", port, TRUE, fault)

InitRelay == InitBoard /\ board = "relay"

NextRelay == Relay_close \/ Relay_open \/ Relay_is_closed \/ Relay_is_open

SpecRelay == InitRelay /\ [][NextRelay]_vars

-----------------------------------------------------------------------------
(* MCP23017_GpioBoard public operations *)

\* self._set_bit(port, True): _set_bit works on the GPIO register
Gpio_set_as_input ==
    \E port \in Ports, fault \in Faults : SetCall("set_as_input", port, TRUE, fault)

\* self._set_bit(port, False)
Gpio_set_as_output ==
    \E port \in Ports, fault \in Faults : SetCall("set_as_output", port, FALSE, fault)

Gpio_read ==
    \E port \in Ports, fault \in {"none", "read"} :
        GetCall("read", port, FALSE, fault)

Gpio_write ==
    \E port \in Ports, bit \in BOOLEAN, fault \in Faults :
        SetCall("write", port, bit, fault)

Gpio_is_high ==
    \E port \in Ports, fault \in {"none", "read"} :
        GetCall("is_high", port, FALSE, fault)

Gpio_is_low ==
    \E port \in Ports, fault \in {"none", "read"} :
        GetCall("is_low", port, TRUE, fault)

\* not current_bit with the negation left out
flip_bit_kept(current_bit) == current_bit

\* the port is set whatever it held
flip_bit_set(current_bit) == TRUE

\* flipped_bit = not current_bit
flip_bit(current_bit) == ~current_bit

\* flip: _get_bit, then _set_bit of the negation; f1 is the fault of the
\* first register read, f2 the fault of _set_bit's own read or write
\* (prev is what rprev keeps of the call before)
FlipCallWith(port, f1, f2, prev) ==
    /\ rn < MaxBoardCalls
    /\ \E g \in {get_bit(port, f1)} :
        IF g.err
        THEN /\ gpio' = gpio
             /\ rcall' = [op |-> "flip", port |-> port, bit |-> FALSE,
                          err |-> TRUE, ret |-> FALSE, gpio |-> gpio,
                          iodir |-> iodir, gppu |-> gppu,
                          reads |-> g.reads, writes |-> 0,
                          fault |-> f1, raised |-> g.raised, printed |-> FALSE]
        ELSE \E s \in {set_bit(port, flip_bit(g.bit), f2)} :
             /\ gpio' = s.reg
             /\ rcall' = [op |-> "flip", port |-> port, bit |-> flip_bit(g.bit),
                          err |-> s.err, ret |-> FALSE, gpio |-> gpio,
                          iodir |-> iodir, gppu |-> gppu,
                          reads |-> g.reads + s.reads, writes |-> s.writes,
                          fault |-> f2, raised |-> s.raised, printed |-> FALSE]
    /\ rprev' = prev
    /\ rn' = rn + 1
    /\ UNCHANGED <<board, iodir, gppu>>
    /\ UNCHANGED <<sessVars, testVars, raceVars, pumpVars, ctlVars>>

FlipCall(port, f1, f2) == FlipCallWith(port, f1, f2, Lite(rcall))

Gpio_flip ==
    \E port \in Ports, f1 \in {"none", "read"}, f2 \in Faults :
        /\ f1 = "read" => f2 = "none"
        /\ FlipCall(port, f1, f2)

\* self._board.iodir = 0xFFFF
Gpio_set_all_ports_as_input ==
    \E fault \in {"none", "write"} :
        DirCall("set_all_ports_as_input", 65535, fault)

\* self._board.iodir = 0x0000
Gpio_set_all_ports_as_output ==
    \E fault \in {"none", "write"} :
        DirCall("set_all_ports_as_output", 0, fault)

InitGpio == InitBoard /\ board = "gpio"

NextGpio ==
    \/ Gpio_set_as_input
    \/ Gpio_set_as_output
    \/ Gpio_read
    \/ Gpio_write
    \/ Gpio_is_high
    \/ Gpio_is_low
    \/ Gpio_flip
    \/ Gpio_set_all_ports_as_input
    \/ Gpio_set_all_ports_as_output

SpecGpio == InitGpio /\ [][NextGpio]_vars

\* flip() under both settings of the direction register
NextFlip ==
    \/ Gpio_flip
    \/ Gpio_set_all_ports_as_input
    \/ Gpio_set_all_ports_as_output

SpecFlip == InitGpio /\ [][NextFlip]_vars

-----------------------------------------------------------------------------
(* A relay board whose value register is shared with another actor *)

\* the lowest and the highest port of each 8-bit half of the register
SharedPorts == {0, 7, 8, port_count - 1}

Shared_set_bit ==
    \E port \in SharedPorts, bit \in BOOLEAN, fault \in Faults :
        SetCall("set_bit", port, bit, fault)

Shared_get_bit ==
    \E port \in SharedPorts, fault \in {"none", "read"} :
        GetCall("get_bit", port, FALSE, fault)

\* another master on the bus sets or clears one bit of the device register
\* between two calls (successive changes count as one)
External_change ==
    /\ rcall.op # "external"
    /\ \E q \in SharedPorts, b \in BOOLEAN :
        /\ gpio' = set_bit_word(gpio, q, b)
        /\ rcall' = [NoCall EXCEPT !.op = "external", !.port = q, !.bit = b,
                                   !.gpio = gpio, !.iodir = iodir, !.gppu = gppu]
    /\ rprev' = Lite(rcall)
    /\ UNCHANGED <<board, iodir, gppu, rn>>
    /\ UNCHANGED <<sessVars, testVars, raceVars, pumpVars, ctlVars>>

InitShared == InitReg /\ board = "relay"

NextShared == Shared_set_bit \/ Shared_get_bit \/ External_change

SpecShared == InitShared /\ [][NextShared]_vars

-----------------------------------------------------------------------------
(* Two callers running _set_bit on the same relay board at the same time. *)
(* Each transport access of _set_bit is one step: the register read (line  *)
(* 110) and the register write (line 119), with the modify step computed   *)
(* on the caller's local bits in between.  When locking is set each caller *)
(* takes the common mutex before _set_bit and gives it back after.         *)

Callers == {1, 2}

\* caller t moves from position from to position to, with local updates
Moved(t, to, bits, err) ==
    callers' = [callers EXCEPT ![t].pc = to, ![t].bits = bits, ![t].err = err]

RaceFrame ==
    /\ UNCHANGED <<board, iodir, gppu, rcall, rprev, rn>>
    /\ UNCHANGED <<sessVars, testVars, pumpVars, ctlVars>>

\* the caller takes the mutex (only when the callers serialise)
Race_acquire ==
    \E t \in Callers :
        /\ locking
        /\ callers[t].pc = "start"
        /\ mutex = NoCaller
        /\ mutex' = t
        /\ Moved(t, "read", callers[t].bits, FALSE)
        /\ UNCHANGED <<gpio, locking>>
        /\ RaceFrame

\* err, message, bits = self._read_gpio(); if err: return True, ...
Race_read ==
    \E t \in Callers, fault \in {"none", "read"} :
        /\ callers[t].pc = IF locking THEN "read" ELSE "start"
        /\ \E r \in {read_gpio(fault)} :
            Moved(t, IF r.err THEN "return" ELSE "write", r.bits, r.err)
        /\ UNCHANGED <<gpio, mutex, locking>>
        /\ RaceFrame

\* bits = bits | (0x0001 << port) or bits & ~(0x0001 << port);
\* err, message = self._write_gpio(bits)
Race_write ==
    \E t \in Callers, fault \in {"none", "write"} :
        /\ callers[t].pc = "write"
        /\ \E w \in {write_gpio(set_bit_word(callers[t].bits, callers[t].port,
                                              callers[t].bit), fault)} :
            /\ gpio' = w.reg
            /\ Moved(t, "return", callers[t].bits, w.err)
        /\ UNCHANGED <<mutex, locking>>
        /\ RaceFrame

\* _set_bit returns; the caller gives the mutex back if it holds it
Race_return ==
    \E t \in Callers :
        /\ callers[t].pc = "return"
        /\ mutex' = IF mutex = t THEN NoCaller ELSE mutex
        /\ Moved(t, "done", callers[t].bits, callers[t].err)
        /\ UNCHANGED <<gpio, locking>>
        /\ RaceFrame

\* a relay board constructed without fault; the two callers ask for
\* different ports
InitRace ==
    /\ board = "relay"
    /\ gpio \in StartValues
    /\ iodir = AllOutputs
    /\ gppu = NoPullUps
    /\ rcall = NoCall /\ rprev = NoPrev /\ rn = 0
    /\ callers \in [Callers -> [port : SharedPorts, bit : BOOLEAN, pc : {"start"},
                                bits : {0}, err : {FALSE}]]
    /\ callers[1].port # callers[2].port
    /\ mutex = NoCaller
    /\ locking \in BOOLEAN
    /\ NoSession
    /\ NoTest
    /\ NoPump
    /\ NoController

NextRace == Race_acquire \/ Race_read \/ Race_write \/ Race_return

SpecRace == InitRace /\ [][NextRace]_vars

-----------------------------------------------------------------------------
(* gpio_ext_test.py: test_port_combinations on a GPIO board *)

\* ports_b_ones = (1 << ports_to_test) - 1
ports_b_ones == ShiftLeft(1, ports_to_test) - 1

\* _read_gpio right after _write_gpio left the register at reg
read_gpio_after(reg, fault) ==
    IF fault = "read"
    THEN [err |-> TRUE, bits |-> 0]
    ELSE [err |-> FALSE, bits |-> reg]

\* one pass of the loop body for the current val: write, read, compare;
\* a failed write or read prints the error and continues with the next val
Test_iteration ==
    /\ val <= ports_b_ones
    /\ \E fault \in Faults :
        LET bits_to_write == BitAnd(val, ports_b_ones)
            w == write_gpio(bits_to_write, fault)
            r == read_gpio_after(w.reg, fault)
            masked_status == BitAnd(r.bits, ports_b_ones)
            match == (masked_status = bits_to_write)
            compared == ~w.err /\ ~r.err
        IN
        /\ gpio' = w.reg
        /\ passed' = IF compared /\ match THEN passed + 1 ELSE passed
        /\ failed' = IF compared /\ ~match THEN failed + 1 ELSE failed
        /\ total_tests' = IF compared THEN total_tests + 1 ELSE total_tests
        /\ rcall' = [NoCall EXCEPT !.op = "test_iteration", !.err = ~compared,
                                   !.ret = compared /\ match,
                                   !.fault = fault, !.printed = ~compared,
                                   !.writes = 1,
                                   !.reads = IF w.err THEN 0 ELSE 1]
    /\ val' = val + 1
    /\ rprev' = NoPrev
    /\ UNCHANGED <<board, iodir, gppu, rn, ports_to_test>>
    /\ UNCHANGED <<sessVars, raceVars, pumpVars, ctlVars>>

\* main(): the board is constructed, all ports are asked to be outputs (the
\* error of that call is not looked at), test_port_combinations starts
InitTest ==
    /\ board = "gpio"
    /\ gpio \in StartValues
    /\ iodir \in {AllInputs, AllOutputs}
    /\ gppu = NoPullUps
    /\ rcall = NoCall /\ rprev = NoPrev /\ rn = 0
    /\ ports_to_test \in 0 .. MaxPortsToTest
    /\ val = 0
    /\ total_tests = 0 /\ passed = 0 /\ failed = 0
    /\ NoSession
    /\ NoRace
    /\ NoPump
    /\ NoController

NextTest == Test_iteration

SpecTest == InitTest /\ [][NextTest]_vars

-----------------------------------------------------------------------------
(* Both boards called with a port index outside 0 .. 15 *)

\* one port index below the range and one above it
OutOfRange == {-1, port_count}

Range_relay_call ==
    /\ board = "relay"
    /\ \E port \in OutOfRange, fault \in Faults :
        \/ SetCall("open", port, TRUE, fault)
        \/ SetCall("close", port, FALSE, fault)
        \/ fault # "write" /\ GetCall("is_open", port, TRUE, fault)
        \/ fault # "write" /\ GetCall("is_closed", port, FALSE, fault)

Range_gpio_call ==
    /\ board = "gpio"
    /\ \E port \in OutOfRange, fault \in Faults :
        \/ SetCall("set_as_input", port, TRUE, fault)
        \/ SetCall("set_as_output", port, FALSE, fault)
        \/ \E bit \in BOOLEAN : SetCall("write", port, bit, fault)
        \/ fault # "write" /\ GetCall("read", port, FALSE, fault)
        \/ FlipCall(port, "none", fault)
        \/ fault = "read" /\ FlipCall(port, "read", "none")

NextRange == Range_relay_call \/ Range_gpio_call

SpecRange == InitBoard /\ [][NextRange]_vars

-----------------------------------------------------------------------------
(* Atlas EZO probe sessions *)

Kinds == {"EC", "RTD", "PH", "PRES", "FLO"}

\* self._sensor = None
NoSensor == 0

\* the address each demo main() gives its session
DefaultAddress(k) ==
    CASE k = "EC" -> 100      \* 0x64
      [] k = "RTD" -> 102     \* 0x66
      [] k = "PH" -> 99       \* 0x63
      [] k = "PRES" -> 106    \* 0x6A
      [] k = "FLO" -> 104     \* 0x68

\* new_address = 0x6B
NewAddresses == {107}

\* responses of the device to a read: a number, volume and rate, a
\* calibration status
Responses == {"14.50", "1.20,3.40", "?CAL,2"}

\* commands a caller passes to calibrate
CalCommands == {"mid", "low", "dry", "clear", "bogus"}

\* -99.9, in hundredths
INVALID_EC == -9990

\* classes whose instances carry self._sensor_name (the EC and RTD classes
\* define the class attribute SENSOR_NAME instead)
has_sensor_name(k) == k \in {"PH", "PRES", "FLO"}

\* the configuration commands with the last one written first
ConfigCommands_unordered(k) ==
    CASE k = "PRES" -> <<"Dec,1", "U,cmh2o">>
      [] k = "FLO" -> <<"O,FR,1", "Set,3/8", "CF,1", "Frp,m", "O,TV,1">>
      [] OTHER -> <<>>

\* commands _configure_sensor writes after creating the handle
ConfigCommands(k) ==
    CASE k = "PRES" -> <<"U,cmh2o", "Dec,1">>
      [] k = "FLO" -> <<"Set,3/8", "CF,1", "Frp,m", "O,TV,1", "O,FR,1">>
      [] OTHER -> <<>>

\* commands read() writes before reading the response
ReadCommands(k) ==
    IF k \in {"EC", "PH"} THEN <<"T,20.0", "R">> ELSE <<"R">>

\* the most transport accesses one call on a probe of class k makes: two
\* scans, the handle, the configuration commands, the commands of read and
\* one response
MaxAccesses(k) == 3 + Len(ConfigCommands(k)) + Len(ReadCommands(k)) + 1

\* How the bus behaves during one call: access number failAt fails (0: none
\* fails); a failing scan raises or reports the address absent; resp is what
\* the device answers to a read (the response read is the last access of a
\* call, so the answer matters only when no access fails).
Plans(k) ==
    {p \in [failAt : 0 .. MaxAccesses(k), how : {"raise", "absent"}, resp : Responses] :
        /\ p.how = "absent" => p.failAt \in 1 .. 2
        /\ p.failAt # 0 => p.resp = "14.50"}

\* float(text), in hundredths
ParseFloat(text) ==
    CASE text = "14.50" -> [ok |-> TRUE, val |-> 1450]
      [] text = "1.20" -> [ok |-> TRUE, val |-> 120]
      [] text = "3.40" -> [ok |-> TRUE, val |-> 340]
      [] OTHER -> [ok |-> FALSE, val |-> 0]

\* text.split(",")
Split(text) ==
    CASE text = "1.20,3.40" -> <<"1.20", "3.40">>
      [] text = "?CAL,2" -> <<"?CAL", "2">>
      [] OTHER -> <<text>>

\* one event of a call: an access of the bus or the device (scan, new,
\* write, read) or a delay (sleep)
Ev(t, ph, cmd, to) == [t |-> t, ph |-> ph, cmd |-> cmd, to |-> to]

\* the transport accesses among the events of a log: time.sleep touches
\* neither the bus nor the device
Accesses(log) == SelectSeq(log, LAMBDA e : e.t # "sleep")

\* the next access is the one the plan makes fail
Fails(st, plan) == plan.failAt = Len(Accesses(st.log)) + 1

Logged(st, ev) == [st EXCEPT !.log = Append(@, ev)]

\* _check_i2c_and_sensor with the presence test made before the scan's
\* exception is looked at
check_i2c_and_sensor_presence_first(st, plan, ph) ==
    LET st1 == Logged(st, Ev("scan", ph, "", st.address)) IN
    IF Fails(st, plan)
    THEN [err |-> TRUE, cls |-> "detect", st |-> st1]
    ELSE [err |-> FALSE, cls |-> "", st |-> st1]

\* _check_i2c_and_sensor: i2c.scan(), then self._address in detected_devices
check_i2c_and_sensor(st, plan, ph) ==
    LET st1 == Logged(st, Ev("scan", ph, "", st.address)) IN
    IF Fails(st, plan) /\ plan.how = "raise"
    THEN [err |-> TRUE, cls |-> "scan", st |-> st1]
    ELSE IF Fails(st, plan)
    THEN [err |-> TRUE, cls |-> "detect", st |-> st1]
    ELSE [err |-> FALSE, cls |-> "", st |-> st1]

\* self._sensor.write(cmd): AttributeError when self._sensor is None
sensor_write(st, plan, ph, cmd) ==
    IF st.sensor = NoSensor
    THEN [raised |-> TRUE, cls |-> "nohandle", st |-> st]
    ELSE [raised |-> Fails(st, plan), cls |-> IF Fails(st, plan) THEN "io" ELSE "",
          st |-> Logged(st, Ev("write", ph, cmd, st.sensor))]

\* self._sensor.read()
sensor_read(st, plan) ==
    IF st.sensor = NoSensor
    THEN [raised |-> TRUE, cls |-> "nohandle", resp |-> "", st |-> st]
    ELSE [raised |-> Fails(st, plan), cls |-> IF Fails(st, plan) THEN "io" ELSE "",
          resp |-> IF Fails(st, plan) THEN "" ELSE plan.resp,
          st |-> Logged(st, Ev("read", "op", "", st.sensor))]

\* the delay after a write is left out
settle_skipped(st, ph, cmd) == st

\* time.sleep(self.PROCESSING_DELAY) and its variants: the statement after
\* each self._sensor.write(cmd)
settle(st, ph, cmd) == Logged(st, Ev("sleep", ph, cmd, st.sensor))

\* a write that raised is made a second time
write_and_settle_retried(st, plan, ph, cmd) ==
    LET w == sensor_write(st, plan, ph, cmd)
        w2 == sensor_write(w.st, plan, ph, cmd)
    IN
    IF ~w.raised THEN [w EXCEPT !.st = settle(w.st, ph, cmd)]
    ELSE IF w2.raised THEN w2
    ELSE [w2 EXCEPT !.st = settle(w2.st, ph, cmd)]

\* self._sensor.write(cmd) followed by time.sleep(...); the sleep is not
\* reached when the write raises
write_and_settle(st, plan, ph, cmd) ==
    LET w == sensor_write(st, plan, ph, cmd) IN
    IF w.raised THEN w ELSE [w EXCEPT !.st = settle(w.st, ph, cmd)]

RECURSIVE write_all(_, _, _, _)
\* consecutive write-and-sleep statement pairs, up to the first write that
\* raises
write_all(st, plan, ph, cmds) ==
    IF cmds = <<>>
    THEN [raised |-> FALSE, cls |-> "", st |-> st]
    ELSE LET w == write_and_settle(st, plan, ph, Head(cmds)) IN
         IF w.raised THEN w ELSE write_all(w.st, plan, ph, Tail(cmds))

\* the handle is left unset
bind_sensor_skipped(st) == st

\* self._sensor = AtlasI2C(address=self._address, ...)
bind_sensor(st) == [st EXCEPT !.sensor = st.address]

\* the flag is left False
mark_configured_skipped(st) == st

\* self._sensor_configured = True
mark_configured(st) == [st EXCEPT !.configured = TRUE]

\* _configure_sensor
configure_sensor(st, plan, k) ==
    LET st0 == [st EXCEPT !.configured = FALSE]
        c == check_i2c_and_sensor(st0, plan, "cfg")
    IN
    IF c.err
    THEN [err |-> TRUE, cls |-> c.cls, st |-> c.st]
    ELSE LET st1 == Logged(c.st, Ev("new", "cfg", "", c.st.address)) IN
         IF Fails(c.st, plan)
         THEN [err |-> TRUE, cls |-> "configure",
               st |-> [st1 EXCEPT !.sensor = NoSensor]]
         ELSE LET w == write_all(bind_sensor(st1), plan, "cfg", ConfigCommands(k)) IN
              IF w.raised
              THEN [err |-> TRUE, cls |-> "configure",
                    st |-> [w.st EXCEPT !.sensor = NoSensor]]
              ELSE [err |-> FALSE, cls |-> "", st |-> mark_configured(w.st)]

\* the opening lines of read, calibrate, check_calibration_status and clear:
\* _check_i2c_and_sensor, then _configure_sensor if not configured;
\* cfg tells whether _configure_sensor ran and how it ended
ensure_ready(st, plan, k) ==
    LET c == check_i2c_and_sensor(st, plan, "chk") IN
    IF c.err
    THEN [err |-> TRUE, cls |-> c.cls, st |-> c.st, cfg |-> "none"]
    ELSE IF ~c.st.configured
    THEN LET f == configure_sensor(c.st, plan, k) IN
         [err |-> f.err, cls |-> f.cls, st |-> f.st,
          cfg |-> IF f.err THEN "failed" ELSE "ok"]
    ELSE [err |-> FALSE, cls |-> "", st |-> c.st, cfg |-> "none"]

\* the result of a call: err and raised (an exception left the call, no
\* tuple was returned), the measurement(s), the status string
Result(err, cls, raised, value, value2, status, st, cfg) ==
    [err |-> err, cls |-> cls, raised |-> raised, val |-> value, val2 |-> value2,
     status |-> status, st |-> st, cfg |-> cfg]

Failure(cls, status, st, cfg) ==
    Result(TRUE, cls, FALSE, INVALID_EC, INVALID_EC, status, st, cfg)

Escaped(cls, st, cfg) ==
    Result(TRUE, cls, TRUE, INVALID_EC, INVALID_EC, "", st, cfg)

\* a response that does not parse is passed on as 0.0
parse_reading_lenient(k, text, st, cfg) ==
    IF k = "FLO" /\ Len(Split(text)) >= 2 /\ ParseFloat(Split(text)[1]).ok
    THEN Result(FALSE, "", FALSE, ParseFloat(Split(text)[1]).val,
                ParseFloat(Split(text)[2]).val, "", st, cfg)
    ELSE Result(FALSE, "", FALSE, ParseFloat(text).val, INVALID_EC, "", st, cfg)

\* float(self._sensor.read()), or for the flow meter
\* result = self._sensor.read().split(","); float(result[0]), float(result[1])
parse_reading(k, text, st, cfg) ==
    IF k = "FLO"
    THEN LET parts == Split(text) IN
         IF Len(parts) >= 2 /\ ParseFloat(parts[1]).ok /\ ParseFloat(parts[2]).ok
         THEN Result(FALSE, "", FALSE, ParseFloat(parts[1]).val,
                     ParseFloat(parts[2]).val, "", st, cfg)
         ELSE Failure("parse", "", st, cfg)
    ELSE IF ParseFloat(text).ok
         THEN Result(FALSE, "", FALSE, ParseFloat(text).val, INVALID_EC, "", st, cfg)
         ELSE Failure("parse", "", st, cfg)

\* read
read(st, plan, k) ==
    LET e == ensure_ready(st, plan, k) IN
    IF e.err
    THEN Failure(e.cls, "", e.st, e.cfg)
    ELSE LET w == write_all(e.st, plan, "op", ReadCommands(k)) IN
         IF w.raised
         THEN Failure(w.cls, "", w.st, e.cfg)
         ELSE LET r == sensor_read(w.st, plan) IN
              IF r.raised
              THEN Failure(r.cls, "", r.st, e.cfg)
              ELSE parse_reading(k, r.resp, r.st, e.cfg)

\* the calibration command calibrate writes, <<>> when the command is not
\* in the probe's vocabulary
CalibrationWrite(k, command) ==
    IF k = "PH"
    THEN IF command \in {"mid", "low", "high"} THEN <<"Cal," \o command \o ",7.0">>
         ELSE IF command = "clear" THEN <<"Cal,clear">>
         ELSE <<>>
    ELSE IF command \in {"low", "high"} THEN <<"Cal," \o command \o ",7.0">>
         ELSE IF command \in {"dry", "clear"} THEN <<"Cal," \o command>>
         ELSE <<>>

\* the status query that ends calibrate and is all of
\* check_calibration_status: write "Cal,?", read the response
query_status(st, plan, k, cfg) ==
    LET w == write_and_settle(st, plan, "op", "Cal,?") IN
    IF w.raised
    THEN IF has_sensor_name(k) THEN Failure(w.cls, "0", w.st, cfg)
         ELSE Escaped(w.cls, w.st, cfg)
    ELSE LET r == sensor_read(w.st, plan) IN
         IF r.raised
         THEN IF has_sensor_name(k) THEN Failure(r.cls, "0", r.st, cfg)
              ELSE Escaped(r.cls, r.st, cfg)
         ELSE Result(FALSE, "", FALSE, INVALID_EC, INVALID_EC, r.resp, r.st, cfg)

\* calibrate with the status query made before the calibration command
calibrate_query_first(st, plan, k, command) ==
    LET e == ensure_ready(st, plan, k)
        q == query_status(e.st, plan, k, e.cfg)
        w == write_all(q.st, plan, "op", CalibrationWrite(k, command))
    IN
    IF e.err
    THEN Failure(e.cls, "", e.st, e.cfg)
    ELSE IF q.err THEN q
    ELSE IF w.raised THEN Failure(w.cls, "0", w.st, e.cfg)
    ELSE [q EXCEPT !.st = w.st]

\* calibrate: in AtlasEzoPhSensor the command write is inside the try block;
\* in AtlasEzoEcSensor it is outside, and the messages built for an invalid
\* command and in the except block read self._sensor_name
calibrate(st, plan, k, command) ==
    LET e == ensure_ready(st, plan, k) IN
    IF e.err
    THEN Failure(e.cls, "", e.st, e.cfg)
    ELSE IF CalibrationWrite(k, command) = <<>>
    THEN IF has_sensor_name(k) THEN Failure("invalid", "0", e.st, e.cfg)
         ELSE Escaped("invalid", e.st, e.cfg)
    ELSE LET w == write_all(e.st, plan, "op", CalibrationWrite(k, command)) IN
         IF w.raised
         THEN IF k = "PH" THEN Failure(w.cls, "0", w.st, e.cfg)
              ELSE Escaped(w.cls, w.st, e.cfg)
         ELSE query_status(w.st, plan, k, e.cfg)

\* check_calibration_status
check_calibration_status(st, plan, k) ==
    LET e == ensure_ready(st, plan, k) IN
    IF e.err
    THEN Failure(e.cls, "", e.st, e.cfg)
    ELSE query_status(e.st, plan, k, e.cfg)

\* AtlasEzoFlowMeter.clear
clear(st, plan, k) ==
    LET e == ensure_ready(st, plan, k) IN
    IF e.err
    THEN Failure(e.cls, "", e.st, e.cfg)
    ELSE LET w == write_and_settle(e.st, plan, "op", "Clear") IN
         IF w.raised
         THEN Failure(w.cls, "", w.st, e.cfg)
         ELSE Result(FALSE, "", FALSE, INVALID_EC, INVALID_EC, "", w.st, e.cfg)

\* AtlasEzoPressureSensor.set_zero_point
set_zero_point(st, plan) ==
    LET w == write_and_settle(st, plan, "op", "Cal,0") IN
    IF w.raised
    THEN Failure(w.cls, "", w.st, "none")
    ELSE Result(FALSE, "", FALSE, INVALID_EC, INVALID_EC, "", w.st, "none")

\* AtlasEzoPressureSensor.set_i2c_address
set_i2c_address(st, plan, new_address) ==
    LET w == write_and_settle(st, plan, "op", "I2C") IN
    IF w.raised
    THEN Failure(w.cls, "", w.st, "none")
    ELSE Result(FALSE, "", FALSE, INVALID_EC, INVALID_EC, "",
                [w.st EXCEPT !.address = new_address], "none")

-----------------------------------------------------------------------------
(* Session calls *)

\* the object as a call finds it, with an empty transport log
Cur == [address |-> address, sensor |-> sensor, configured |-> configured, log |-> <<>>]

\* the record of a call: what was asked, what came back, whether the session
\* was configured when the call began, whether _configure_sensor ran (cfg),
\* the transport accesses made (log), whether one of them failed (hit), how
\* the bus scan failed if it is the access that failed (how), and the
\* response the device gave to a read (resp)
CallRecord(op, arg, plan, r, before) ==
    [op |-> op, arg |-> arg, err |-> r.err, cls |-> r.cls, raised |-> r.raised,
     val |-> r.val, val2 |-> r.val2, status |-> r.status,
     cfgBefore |-> before, cfg |-> r.cfg, log |-> r.st.log,
     hit |-> plan.failAt \in 1 .. Len(Accesses(r.st.log)),
     how |-> IF plan.failAt \in 1 .. Len(Accesses(r.st.log))
                /\ r.st.log[Len(r.st.log)].t = "scan"
             THEN plan.how ELSE "",
     resp |-> IF \E i \in 1 .. Len(r.st.log) :
                    /\ r.st.log[i].t = "read"
                    /\ plan.failAt # Len(Accesses(SubSeq(r.st.log, 1, i)))
              THEN plan.resp ELSE ""]

\* the access of call record c that failed was a command write or a response
\* read of the operation itself (a call ends at its first failing access)
OpAccessFailed(c) ==
    /\ c.hit
    /\ c.log[Len(c.log)].ph = "op"

\* what sprev keeps of a call record
SLite(c) ==
    [op |-> c.op, err |-> c.err, cls |-> c.cls, cfgBefore |-> c.cfgBefore,
     iofail |-> OpAccessFailed(c)]

NoSPrev == [op |-> "none", err |-> FALSE, cls |-> "", cfgBefore |-> FALSE, iofail |-> FALSE]

\* the object and the call record after a call with result r
SessionStep(op, arg, plan, r) ==
    /\ address' = r.st.address
    /\ sensor' = r.st.sensor
    /\ configured' = r.st.configured
    /\ scall' = CallRecord(op, arg, plan, r, configured)
    /\ sprev' = SLite(scall)
    /\ sn' = sn + 1
    /\ UNCHANGED kind
    /\ UNCHANGED <<regVars, testVars, raceVars, pumpVars, ctlVars>>

Session_read ==
    /\ sn < MaxSessionCalls
    /\ \E plan \in Plans(kind) : \E r \in {read(Cur, plan, kind)} :
           SessionStep("read", "", plan, r)

Session_calibrate ==
    /\ sn < MaxSessionCalls
    /\ kind \in {"EC", "PH"}
    /\ \E command \in CalCommands, plan \in Plans(kind) :
           \E r \in {calibrate(Cur, plan, kind, command)} :
               SessionStep("calibrate", command, plan, r)

Session_check_calibration_status ==
    /\ sn < MaxSessionCalls
    /\ kind \in {"EC", "PH"}
    /\ \E plan \in Plans(kind) : \E r \in {check_calibration_status(Cur, plan, kind)} :
           SessionStep("check_calibration_status", "", plan, r)

Session_clear ==
    /\ sn < MaxSessionCalls
    /\ kind = "FLO"
    /\ \E plan \in Plans(kind) : \E r \in {clear(Cur, plan, kind)} :
           SessionStep("clear", "", plan, r)

Session_set_zero_point ==
    /\ sn < MaxSessionCalls
    /\ kind = "PRES"
    /\ \E plan \in Plans(kind) : \E r \in {set_zero_point(Cur, plan)} :
           SessionStep("set_zero_point", "", plan, r)

Session_set_i2c_address ==
    /\ sn < MaxSessionCalls
    /\ kind = "PRES"
    /\ \E new_address \in NewAddresses, plan \in Plans(kind) :
           \E r \in {set_i2c_address(Cur, plan, new_address)} :
               SessionStep("set_i2c_address", "", plan, r)

\* no board object in the behaviours of the session specification
NoBoard ==
    /\ board = "none"
    /\ gpio = 0 /\ iodir = 0 /\ gppu = 0
    /\ rcall = NoCall /\ rprev = NoPrev /\ rn = 0
    /\ NoTest
    /\ NoRace

\* __init__: the fields are set, then self._configure_sensor() runs
InitSession ==
    /\ NoBoard
    /\ NoPump
    /\ NoController
    /\ kind \in Kinds
    /\ \E plan \in Plans(kind) :
        \E r \in {configure_sensor([address |-> DefaultAddress(kind), sensor |-> NoSensor,
                                    configured |-> FALSE, log |-> <<>>], plan, kind)} :
            /\ address = r.st.address
            /\ sensor = r.st.sensor
            /\ configured = r.st.configured
            /\ scall = CallRecord("init", "", plan,
                                  Result(r.err, r.cls, FALSE, INVALID_EC, INVALID_EC, "",
                                         r.st, IF r.err THEN "failed" ELSE "ok"),
                                  FALSE)
    /\ sprev = NoSPrev
    /\ sn = 0

NextSession ==
    \/ Session_read
    \/ Session_calibrate
    \/ Session_check_calibration_status
    \/ Session_clear
    \/ Session_set_zero_point
    \/ Session_set_i2c_address

SpecSession == InitSession /\ [][NextSession]_vars

-----------------------------------------------------------------------------
(* Properties of the probe sessions *)

\* the operations that open with _check_i2c_and_sensor / _configure_sensor
EnsureOps == {"read", "calibrate", "check_calibration_status", "clear"}

PublicOps == EnsureOps \cup {"set_zero_point", "set_i2c_address"}

\* the call made a command write or a response read of the operation itself
HasOpAccess(c) == \E i \in 1 .. Len(c.log) : c.log[i].ph = "op"

\* the response is one the probe's read() can parse
WellFormed(k, text) == IF k = "FLO" THEN text = "1.20,3.40" ELSE text = "14.50"

\* C2: when an operation on a Ready session fails at the transport layer
\* (its command write or response read raises), the call returns an error
\* and the session is Unready (configured = false) when it returns.
C2_TransportFailureDemotes ==
    (scall.op \in PublicOps /\ scall.cfgBefore /\ OpAccessFailed(scall))
        => (scall.err /\ ~configured)

\* C3: after a read() on a Ready session failed with a transport I/O error,
\* the next read() that issues a command to the device has first run the
\* bus scan and the configuration routine in that same call.
C3_NextReadReconfigures ==
    (/\ sprev.op = "read" /\ sprev.cfgBefore /\ sprev.iofail
     /\ scall.op = "read" /\ HasOpAccess(scall))
        => (scall.log[1].t = "scan" /\ scall.cfg = "ok")

\* C4: a session whose detect step fails (address absent from the scan, at
\* construction or in a later call) stays Unready; when a later call on the
\* same object finds the device and configuration succeeds, the session is
\* Ready and that same call goes on to its command exchange.
C4_Lifecycle ==
    /\ (scall.cls = "detect" /\ ~scall.cfgBefore) => (scall.err /\ ~configured)
    /\ (scall.op \in EnsureOps /\ ~scall.cfgBefore /\ scall.cfg = "ok")
           => /\ configured
              /\ sensor # NoSensor
              /\ scall.op \in {"read", "check_calibration_status", "clear"}
                    => HasOpAccess(scall)

\* C4 witness: construction of a pH session failed to detect the device;
\* the following read() configured the session and returned a reading.
C4_Witness ==
    /\ kind = "PH"
    /\ sprev.op = "init" /\ sprev.cls = "detect"
    /\ scall.op = "read" /\ ~scall.cfgBefore /\ scall.cfg = "ok"
    /\ configured /\ ~scall.err

\* C5: any detected failure (bus scan raises, address absent, configuration
\* raises, transport error during an operation) leaves configured = false.
C5_FailureResetsConfigured ==
    (scall.op \in PublicOps \cup {"init"} /\ scall.hit) => ~configured

\* C6: every public operation first performs the ensure-ready step (its
\* first transport access is the bus scan), and when that step fails the
\* call makes no command write or response read of the operation.
C6_EnsureReadyFirst ==
    scall.op \in PublicOps =>
        /\ Len(scall.log) >= 1
        /\ scall.log[1].t = "scan"
        /\ scall.cls \in {"scan", "detect", "configure"} => ~HasOpAccess(scall)

\* C7: whatever failures came before, a read() during which the bus scan
\* reports the device, no transport access fails and the device answers
\* with a reading returns a success result.
C7_NoPermanentPoison ==
    (/\ scall.op = "read"
     /\ ~scall.hit
     /\ scall.resp # "" => WellFormed(kind, scall.resp))
        => (~scall.err /\ ~scall.raised /\ scall.val # INVALID_EC)

\* C7 witness: a read() of the EC session failed on a transport error and
\* the next read(), with the bus healthy, returned 14.50.
C7_Witness ==
    /\ kind = "EC"
    /\ sprev.op = "read" /\ sprev.err /\ sprev.iofail
    /\ scall.op = "read" /\ ~scall.hit /\ ~scall.err /\ scall.val = 1450

-----------------------------------------------------------------------------
(* Properties of the register boards *)

\* the bits of word a and word b agree on every port except p
SameExcept(a, b, p) == \A q \in Ports \ {p} : BitOf(a, q) = BitOf(b, q)

\* rcall is a successful call of op
Did(op) == rcall.op = op /\ ~rcall.err

\* rprev is a successful call of op1 and rcall a successful call of op2 on
\* the same port
DidThen(op1, op2) ==
    /\ rprev.op = op1 /\ ~rprev.err
    /\ rcall.op = op2 /\ ~rcall.err
    /\ rcall.port = rprev.port

\* C1: a successful set_bit(port, bit) followed by get_bit(port) returns
\* bit, and set_bit leaves the other 15 bits of the register as they were
\* before the call (both boards).
C1_SetThenGetRoundTrip ==
    /\ DidThen("set_bit", "get_bit") => rcall.ret = rprev.bit
    /\ Did("set_bit") => SameExcept(gpio, rcall.gpio, rcall.port)

\* C1 witness: port 15 was set in 0xA5A5, set_bit(15, False) cleared it
\* (leaving 0x25A5) and get_bit(15) then returned False.
C1_Witness ==
    /\ DidThen("set_bit", "get_bit")
    /\ rcall.port = 15 /\ rprev.bit = FALSE /\ rcall.ret = FALSE
    /\ gpio = 9637

\* C8: calling open(port) twice in a row on a relay board yields
\* is_open(port) = true after the first call and after the second call, and
\* the second open leaves the value register as the first one left it.
C8_OpenTwiceIsOpen ==
    /\ DidThen("open", "is_open") => rcall.ret = TRUE
    /\ DidThen("open", "open") => gpio = rcall.gpio

\* C9: close clears bit port and open sets it; is_open returns the value of
\* bit port and is_closed its negation, so that after a successful
\* close(port) is_closed(port) is true and is_open(port) is false.
C9_RelayQueriesFollowRegister ==
    /\ Did("close") => ~BitOf(gpio, rcall.port)
    /\ Did("open") => BitOf(gpio, rcall.port)
    /\ Did("is_open") => rcall.ret = BitOf(rcall.gpio, rcall.port)
    /\ Did("is_closed") => rcall.ret = ~BitOf(rcall.gpio, rcall.port)
    /\ DidThen("close", "is_closed") => rcall.ret = TRUE
    /\ DidThen("close", "is_open") => rcall.ret = FALSE

\* C10: a successful set_as_input(port) leaves bit port of the direction
\* register and of the pull-up register set, and the other 15 bits of both
\* registers as they were.
C10_SetAsInputSetsDirectionAndPullUp ==
    Did("set_as_input") =>
        /\ BitOf(iodir, rcall.port) /\ BitOf(gppu, rcall.port)
        /\ SameExcept(iodir, rcall.iodir, rcall.port)
        /\ SameExcept(gppu, rcall.gppu, rcall.port)

\* C11: a successful set_as_output(port) clears bit port of the direction
\* register, leaves its other 15 bits as they were, and leaves the value
\* register unchanged.
C11_SetAsOutputClearsDirection ==
    Did("set_as_output") =>
        /\ ~BitOf(iodir, rcall.port)
        /\ SameExcept(iodir, rcall.iodir, rcall.port)
        /\ gpio = rcall.gpio

\* C12: a successful flip(port) inverts bit port of the value register,
\* leaves the other 15 value bits as they were, and leaves the direction
\* register and the pull-up register as they were.
C12_FlipTogglesValueBit ==
    Did("flip") =>
        /\ BitOf(gpio, rcall.port) = ~BitOf(rcall.gpio, rcall.port)
        /\ SameExcept(gpio, rcall.gpio, rcall.port)
        /\ iodir = rcall.iodir
        /\ gppu = rcall.gppu

\* C12 witness: all ports were made outputs, then flip(3) turned 0xA5A5
\* into 0xA5AD with the direction register still 0x0000.
C12_Witness ==
    /\ rprev.op = "set_all_ports_as_output" /\ ~rprev.err
    /\ Did("flip") /\ rcall.port = 3
    /\ rcall.gpio = 42405 /\ gpio = 42413
    /\ iodir = AllOutputs /\ gppu = NoPullUps

\* C13: a call of a relay-board or GPIO-board operation with a port index
\* outside 0 .. 15 returns an error without reading or writing a register,
\* and the value register is as it was.
C13_OutOfRangePortRejected ==
    (rcall.op \notin {"none", "init"} /\ rcall.port \notin Ports) =>
        /\ rcall.err
        /\ rcall.reads = 0 /\ rcall.writes = 0
        /\ gpio = rcall.gpio

\* the self-test has run past its last value
TestDone == rcall.op = "test_iteration" /\ val = ports_b_ones + 1

\* C14: in test_port_combinations every value that is written and read back
\* without a transport error reads back, masked to the low ports_to_test
\* bits, as the value written: each such iteration counts one pass and none
\* counts a failure, so a run without transport errors ends with one pass
\* per value in 0 .. 2^ports_to_test - 1 and zero failures.
C14_PortCombinationsRoundTrip ==
    /\ failed = 0
    /\ passed = total_tests
    /\ (rcall.op = "test_iteration" /\ ~rcall.err) =>
            (rcall.ret /\ gpio = val - 1)
    /\ (TestDone /\ total_tests = val) => passed = ShiftLeft(1, ports_to_test)

\* C14 witness: the run over 5 ports finished without a transport error:
\* 32 passes, no failure, the register holding the last value written.
C14_Witness ==
    /\ TestDone
    /\ ports_to_test = 5 /\ val = 32
    /\ total_tests = 32 /\ passed = 32 /\ failed = 0
    /\ gpio = 31

\* C15: every set_bit call reads the register once from the transport in
\* that same call, so that after an out-of-band change of bit q a successful
\* set_bit(p, b) with p # q leaves the register with the external value at
\* bit q and b at bit p.
C15_SetBitRereadsRegister ==
    /\ rcall.op = "set_bit" => rcall.reads = 1
    /\ (rprev.op = "external" /\ Did("set_bit") /\ rcall.port # rprev.port) =>
            /\ BitOf(gpio, rprev.port) = rprev.bit
            /\ BitOf(gpio, rcall.port) = rcall.bit

\* C15 witness: another actor cleared bit 0 of 0xA5A5, then set_bit(15,
\* False) left 0x25A4: bit 0 still clear, bit 15 cleared.
C15_Witness ==
    /\ rprev.op = "external" /\ rprev.port = 0 /\ rprev.bit = FALSE
    /\ Did("set_bit") /\ rcall.port = 15 /\ rcall.bit = FALSE
    /\ rcall.gpio = 42404 /\ gpio = 9636

\* C16: get_bit returns the bit the device register holds at the time of
\* the call, also right after an out-of-band change, and returns an error
\* exactly when the register read raises.
C16_GetBitIsCurrent ==
    rcall.op = "get_bit" =>
        IF rcall.fault = "read"
        THEN rcall.err
        ELSE ~rcall.err /\ rcall.ret = BitOf(gpio, rcall.port)

\* C16 witness: another actor cleared bit 15 of 0xA5A5 and get_bit(15) then
\* returned False.
C16_Witness ==
    /\ rprev.op = "external" /\ rprev.port = 15 /\ rprev.bit = FALSE
    /\ Did("get_bit") /\ rcall.port = 15 /\ rcall.ret = FALSE
    /\ rn = 2 /\ gpio = 9637

\* both callers have returned from _set_bit without an error
BothSet ==
    /\ callers # <<>>
    /\ \A t \in Callers : callers[t].pc = "done" /\ ~callers[t].err

\* the register holds what caller t asked for
Kept(t) == BitOf(gpio, callers[t].port) = callers[t].bit

\* C17: when each of two callers holds the common mutex for its whole
\* set_bit call (different ports of the same register), every interleaving
\* in which both calls succeed ends with both requested bit values in the
\* register, and only the holder of the mutex is between its read and its
\* write.  (Without the mutex an interleaving loses one update: C17_Witness.)
C17_SerializedSetBitKeepsBoth ==
    /\ (locking /\ BothSet) => (Kept(1) /\ Kept(2))
    /\ (locking /\ callers # <<>>) =>
            \A t \in Callers : callers[t].pc \in {"read", "write"} => mutex = t

\* C17 witness: without the mutex, caller 1 cleared bit 0 and caller 2
\* cleared bit 15 of 0xA5A5, both calls returned without error, and the
\* register is 0x25A5: bit 0 is still set, caller 1's update is lost.
C17_Witness ==
    /\ ~locking
    /\ BothSet
    /\ callers[1].port = 0 /\ callers[1].bit = FALSE
    /\ callers[2].port = 15 /\ callers[2].bit = FALSE
    /\ gpio = 9637
    /\ ~Kept(1) /\ Kept(2)

\* C18: every failure of a public operation or of construction reaches the
\* caller as an error result: a call during which a transport access raised
\* (or, for calibrate, whose command is invalid) returns err = True, the
\* error is not merely printed, and no exception leaves the call.
C18_NoErrorSwallowed ==
    /\ rcall.op # "none" =>
            /\ ~rcall.raised /\ ~rcall.printed
            /\ rcall.fault # "none" => rcall.err
    /\ scall.op # "none" =>
            /\ ~scall.raised
            /\ scall.hit => scall.err
            /\ (scall.op = "calibrate" /\ scall.arg = "bogus") => scall.err

\* C19: a relay board's direction register is 0x0000 after construction and
\* after every sequence of open, close, is_open and is_closed calls.
C19_RelayPortsStayOutputs ==
    board = "relay" => iodir = AllOutputs

\* the access that failed in call record c
FailedAccess(c) == c.log[Len(c.log)]

\* call record c created the AtlasI2C handle
BuiltHandle(c) == \E i \in 1 .. Len(c.log) : c.log[i].t = "new"

\* C20: ensure-ready (construction, and the opening of read, calibrate,
\* check_calibration_status and clear) classifies in a fixed order: a bus
\* scan that raises gives the bus-scan error and the handle is not built; an
\* address absent from the scan gives the not-detected error and the handle
\* is not built; a configuration step that raises gives the configuration
\* error and leaves the session unconfigured; a session that this call made
\* Ready went through scan, presence check and configuration without error.
C20_EnsureReadyOrder ==
    scall.op \in EnsureOps \cup {"init"} =>
        /\ (scall.hit /\ scall.how = "raise") =>
                (scall.err /\ scall.cls = "scan" /\ ~BuiltHandle(scall))
        /\ (scall.hit /\ scall.how = "absent") =>
                (scall.err /\ scall.cls = "detect" /\ ~BuiltHandle(scall))
        /\ (scall.hit /\ FailedAccess(scall).ph = "cfg"
                      /\ FailedAccess(scall).t # "scan") =>
                (scall.err /\ scall.cls = "configure" /\ ~configured
                 /\ sensor = NoSensor)
        /\ (~scall.cfgBefore /\ configured) =>
                /\ scall.cfg = "ok"
                /\ scall.cls \notin {"scan", "detect", "configure"}
                /\ BuiltHandle(scall)
                /\ scall.log[1].t = "scan"

\* C20 witness: a read() of an unconfigured EC session found the device in
\* both scans, then building the handle raised: configuration error.
C20_Witness ==
    /\ kind = "EC"
    /\ scall.op = "read" /\ ~scall.cfgBefore
    /\ scall.hit /\ FailedAccess(scall).t = "new"
    /\ Len(scall.log) = 3
    /\ scall.err /\ scall.cls = "configure" /\ ~configured

\* C21: in every command exchange of a session call the command is written,
\* then the settle delay is waited, then the response is read: a response
\* read is always directly preceded by the delay that follows the write of
\* the same exchange; and when a command write raises, the call reads no
\* response.
C21_WriteWaitRead ==
    /\ \A i \in 1 .. Len(scall.log) :
          scall.log[i].t = "read"
              => /\ i >= 3
                 /\ scall.log[i - 1].t = "sleep"
                 /\ scall.log[i - 2].t = "write"
                 /\ scall.log[i - 1].cmd = scall.log[i - 2].cmd
                 /\ scall.log[i - 2].ph = "op"
    /\ (scall.hit /\ FailedAccess(scall).t = "write")
          => \A i \in 1 .. Len(scall.log) : scall.log[i].t # "read"

\* C21 witness: a read() of a pH probe that wrote both its commands, waited
\* after each and read the response.
C21_Witness ==
    /\ kind = "PH"
    /\ scall.op = "read"
    /\ ~scall.err
    /\ Len(scall.log) >= 5
    /\ scall.log[Len(scall.log)].t = "read"
    /\ scall.log[Len(scall.log) - 1].t = "sleep"
    /\ scall.log[Len(scall.log) - 2] = Ev("write", "op", "R", address)

-----------------------------------------------------------------------------
(* A program that holds either a relay board or a probe session *)

InitNoRetry == InitShared \/ InitSession

NextNoRetry ==
    \/ (board # "none" /\ NextShared)
    \/ (kind # "none" /\ NextSession)

SpecNoRetry == InitNoRetry /\ [][NextNoRetry]_vars

\* the events of log that satisfy Test
Count(log, Test(_)) == Len(SelectSeq(log, Test))

C23_ReadSucceedsIffAllSteps ==
    scall.op = "read"
        => /\ ~scall.raised
           /\ ~scall.err <=> (~scall.hit /\ WellFormed(kind, scall.resp))
           /\ ~scall.err
                => /\ scall.cls = ""
                   /\ kind # "FLO" => scall.val = 1450
                   /\ kind = "FLO" => (scall.val = 120 /\ scall.val2 = 340)
           /\ scall.err
                => /\ scall.cls # ""
                   /\ scall.val = INVALID_EC
                   /\ kind = "FLO" => scall.val2 = INVALID_EC

\* C23 witness: read() of the probe at 0x64 returns 14.50 from the response
\* "14.50".
C23_Witness ==
    /\ kind = "EC"
    /\ address = 100
    /\ scall.op = "read"
    /\ ~scall.err
    /\ scall.resp = "14.50"
    /\ scall.val = 1450

\* C24: the address of a session is immutable after construction: no
\* sequence of public operations changes the address the session scans for
\* and talks to.
C24_AddressImmutable ==
    kind # "none" => address = DefaultAddress(kind)

\* the commands written in the configuration phase of call c, in order
ConfigWrites(c) == SelectSeq(c.log, LAMBDA e : e.t = "write" /\ e.ph = "cfg")

\* the configuration sequence of each probe class
ConfigSequence(k) ==
    CASE k = "PRES" -> <<"U,cmh2o", "Dec,1">>
      [] k = "FLO" -> <<"Set,3/8", "CF,1", "Frp,m", "O,TV,1", "O,FR,1">>
      [] OTHER -> <<>>

\* C25: a session becomes configured only in a call whose configuration
\* step wrote every command of the configuration sequence, in order and
\* without error; when the handle creation or a command write of the
\* sequence fails, the call returns the configuration error and the session
\* is left with configured = false.
C25_ConfiguredOnlyAfterSequence ==
    /\ (configured /\ ~scall.cfgBefore)
          => /\ scall.cfg = "ok"
             /\ Len(ConfigWrites(scall)) = Len(ConfigSequence(kind))
             /\ \A i \in 1 .. Len(ConfigWrites(scall)) :
                    ConfigWrites(scall)[i].cmd = ConfigSequence(kind)[i]
             /\ ~(scall.hit /\ FailedAccess(scall).ph = "cfg")
    /\ (scall.hit /\ FailedAccess(scall).ph = "cfg")
          => /\ ~configured
             /\ scall.err
             /\ scall.cfg = "failed"
             /\ FailedAccess(scall).t \in {"new", "write"} => scall.cls = "configure"

\* C25 witness: a flow-meter session that was Unready became configured in
\* a read() that wrote the five configuration commands.
C25_Witness ==
    /\ kind = "FLO"
    /\ scall.op = "read"
    /\ ~scall.cfgBefore
    /\ configured
    /\ Len(ConfigWrites(scall)) = 5

\* C26: configured = true implies the device handle is set; so no read,
\* calibrate, check_calibration_status or clear call fails for want of a
\* handle at its command write.
C26_ConfiguredHasHandle ==
    /\ configured => sensor # NoSensor
    /\ scall.op \in EnsureOps => scall.cls # "nohandle"

\* C26 witness: a configured flow-meter session whose read() reached its
\* command write.
C26_Witness ==
    /\ kind = "FLO"
    /\ configured
    /\ scall.op = "read"
    /\ HasOpAccess(scall)

-----------------------------------------------------------------------------
(* _set_bit and flip under transport faults *)

Fault_set_bit ==
    \E port \in SharedPorts, bit \in BOOLEAN, fault \in Faults :
        SetCall("set_bit", port, bit, fault)

Fault_flip ==
    /\ board = "gpio"
    /\ \E port \in SharedPorts, f1 \in {"none", "read"}, f2 \in Faults :
        /\ f1 = "read" => f2 = "none"
        /\ FlipCall(port, f1, f2)

NextFault == Fault_set_bit \/ Fault_flip

SpecFault == InitReg /\ [][NextFault]_vars

\* C27: when the register read inside set_bit, or either register read of
\* flip, raises, the call returns an error, writes nothing and leaves the
\* register as it was; when the read succeeds and the write raises, the call
\* returns an error.
C27_FailedReadWritesNothing ==
    rcall.op \in {"set_bit", "flip"}
        => /\ rcall.fault = "read"
                => /\ rcall.err
                   /\ rcall.writes = 0
                   /\ gpio = rcall.gpio
           /\ rcall.fault = "write"
                => /\ rcall.err
                   /\ rcall.reads >= 1
                   /\ rcall.writes = 1

\* C27 witness: a flip whose _get_bit read the register and whose _set_bit
\* then failed to read it.
C27_Witness ==
    /\ rcall.op = "flip"
    /\ rcall.fault = "read"
    /\ rcall.reads = 2
    /\ rcall.err
    /\ gpio = rcall.gpio

\* C28: after a successful set_i2c_address(new) the presence check and the
\* command writes of the next read() both target the new address; and when
\* the address-change write raises on a freshly constructed session, the
\* session address is still the one it was constructed with.
C28_AddressChangeConsistent ==
    /\ (sprev.op = "set_i2c_address" /\ ~sprev.err /\ scall.op = "read")
          => \A i \in 1 .. Len(scall.log) :
                scall.log[i].t \in {"scan", "write"} => scall.log[i].to = address
    /\ (sprev.op = "init" /\ scall.op = "set_i2c_address" /\ scall.err)
          => address = DefaultAddress(kind)

\* the commands calibrate accepts, per probe class
Vocabulary(k) ==
    IF k = "PH" THEN {"mid", "low", "high", "clear"}
    ELSE {"dry", "low", "high", "clear"}

\* C29: calibrate with a command outside the probe's vocabulary returns an
\* error result (error flag true, no exception) and writes no command to
\* the device in that call.
C29_InvalidCommandRejected ==
    (scall.op = "calibrate" /\ scall.arg \notin Vocabulary(kind))
        => /\ scall.err
           /\ ~scall.raised
           /\ \A i \in 1 .. Len(scall.log) : scall.log[i].t # "write"

\* the command writes and response reads of call c itself, in order
OpAccesses(c) == SelectSeq(c.log, LAMBDA e : e.ph = "op" /\ e.t # "sleep")

\* C30: a successful calibrate with a valid command writes the calibration
\* command, then the status query "Cal,?", then reads, and returns the
\* response as calibration status; in no calibrate call is "Cal,?" written
\* before the calibration command.
C30_CalibrateThenQuery ==
    scall.op = "calibrate"
        => /\ ~scall.err
                => /\ scall.arg \in Vocabulary(kind)
                   /\ Len(OpAccesses(scall)) = 3
                   /\ OpAccesses(scall)[1].t = "write"
                   /\ <<OpAccesses(scall)[1].cmd>> = CalibrationWrite(kind, scall.arg)
                   /\ OpAccesses(scall)[2].t = "write"
                   /\ OpAccesses(scall)[2].cmd = "Cal,?"
                   /\ OpAccesses(scall)[3].t = "read"
                   /\ scall.status = scall.resp
           /\ \A i \in 1 .. Len(OpAccesses(scall)) :
                (OpAccesses(scall)[i].t = "write" /\ OpAccesses(scall)[i].cmd = "Cal,?")
                    => /\ i = 2
                       /\ <<OpAccesses(scall)[1].cmd>> = CalibrationWrite(kind, scall.arg)

\* C30 witness: calibrate("dry") on the EC probe succeeded and returned the
\* status the device answered to "Cal,?".
C30_Witness ==
    /\ kind = "EC"
    /\ scall.op = "calibrate"
    /\ scall.arg = "dry"
    /\ ~scall.err
    /\ scall.status = "?CAL,2"
    /\ Len(OpAccesses(scall)) = 3

-----------------------------------------------------------------------------
(* Peristaltic pump: PeristalticPumpI2cAddressChanger *)

\* number of calls on one pump object in one behaviour
MaxPumpCalls == 2

\* current_address: 0x68 in the pump's main(), 0x5a in the controller's
PumpAddresses == {104, 90}

\* new_i2c_address
PumpNewAddresses == {103, 105}

\* volume: the default 0 and volume_to_disp = 15
Volumes == {0, 15}

\* the most transport accesses one pump call makes: the scan, the handle,
\* the two queries
MaxPumpAccesses == 4

\* How the bus behaves during one pump call: access number failAt raises
\* (0: none does), or the scan returns without the pump's address in it
PumpPlans ==
    {p \in [failAt : 0 .. MaxPumpAccesses, how : {"raise", "absent"}] :
        p.how = "absent" => p.failAt = 1}

\* the object as a call finds it, with an empty transport log
PCur ==
    [i2c_address |-> i2c_address, device |-> device,
     detected |-> detected_i2c_devices, log |-> <<>>]

\* _detect_i2c_bus: self._detected_i2c_devices = i2c.scan(), [] when the
\* scan raises
detect_i2c_bus(st, plan) ==
    LET st1 == Logged(st, Ev("scan", "detect", "", st.i2c_address)) IN
    IF Fails(st, plan) /\ plan.how = "raise"
    THEN [ok |-> FALSE, st |-> [st1 EXCEPT !.detected = {}]]
    ELSE IF Fails(st, plan)
    THEN [ok |-> TRUE, st |-> [st1 EXCEPT !.detected = {}]]
    ELSE [ok |-> TRUE, st |-> [st1 EXCEPT !.detected = {st.i2c_address}]]

\* the presence test is left out
detect_device_skipped(st) == TRUE

\* _detect_device: self._i2c_address in self._detected_i2c_devices
detect_device(st) == st.i2c_address \in st.detected

\* _configure_device: self._device = AtlasI2C(address=self._i2c_address)
configure_device(st, plan) ==
    LET st1 == Logged(st, Ev("new", "cfg", "", st.i2c_address)) IN
    IF Fails(st, plan)
    THEN [ok |-> FALSE, st |-> st1]
    ELSE [ok |-> TRUE, st |-> [st1 EXCEPT !.device = st.i2c_address]]

\* self._device.query(cmd): AttributeError when self._device is None
device_query(st, plan, cmd) ==
    IF st.device = NoDevice
    THEN [raised |-> TRUE, st |-> st]
    ELSE [raised |-> Fails(st, plan),
          st |-> Logged(st, Ev("query", "op", cmd, st.device))]

\* self._device.write(cmd)
device_write(st, plan, cmd) ==
    IF st.device = NoDevice
    THEN [raised |-> TRUE, st |-> st]
    ELSE [raised |-> Fails(st, plan),
          st |-> Logged(st, Ev("write", "op", cmd, st.device))]

\* _set_i2c_address: query('Plock,0'), then query(f'I2C,{new_address}')
pump_set_i2c_address(st, plan, new_address) ==
    LET q1 == device_query(st, plan, "Plock,0") IN
    IF q1.raised
    THEN [ok |-> FALSE, st |-> q1.st]
    ELSE LET q2 == device_query(q1.st, plan, "I2C," \o ToString(new_address)) IN
         [ok |-> ~q2.raised, st |-> q2.st]

\* change_i2c_address: returns None whatever happens; reached is the step
\* at which it returned
change_i2c_address(st, plan, new_address) ==
    LET b == detect_i2c_bus(st, plan) IN
    IF ~b.ok
    THEN [reached |-> "bus", st |-> b.st]
    ELSE IF ~detect_device(b.st)
    THEN [reached |-> "device", st |-> b.st]
    ELSE LET c == configure_device(b.st, plan) IN
         IF ~c.ok
         THEN [reached |-> "configure", st |-> c.st]
         ELSE [reached |-> "set", st |-> pump_set_i2c_address(c.st, plan, new_address).st]

\* the truth value of a bound method object such as self._detect_i2c_bus
\* (the method is not called)
MethodTruth == TRUE

\* _dispense_volume: err = self._detect_i2c_bus and self._detect_device
dispense_volume(st, plan, volume) ==
    LET err == MethodTruth /\ MethodTruth IN
    IF err
    THEN [err |-> TRUE, cls |-> "detect", st |-> st]
    ELSE LET w == device_write(st, plan, "D," \o ToString(volume)) IN
         IF w.raised
         THEN [err |-> TRUE, cls |-> "configure", st |-> w.st]
         ELSE [err |-> FALSE, cls |-> "", st |-> w.st]

\* the object and the call record after a pump call: the plan of the bus,
\* the accesses made, which of them failed (0: none)
PumpStep(op, arg, plan, err, cls, reached, st) ==
    /\ pn < MaxPumpCalls
    /\ i2c_address' = st.i2c_address
    /\ device' = st.device
    /\ detected_i2c_devices' = st.detected
    /\ pcall' = [op |-> op, arg |-> arg, err |-> err, cls |-> cls,
                 reached |-> reached, plan |-> plan, log |-> st.log,
                 failed |-> IF plan.failAt \in 1 .. Len(st.log) THEN plan.failAt ELSE 0]
    /\ pn' = pn + 1
    /\ UNCHANGED <<regVars, sessVars, testVars, raceVars, ctlVars>>

Pump_change_i2c_address ==
    \E new_address \in PumpNewAddresses, plan \in PumpPlans :
        \E r \in {change_i2c_address(PCur, plan, new_address)} :
            PumpStep("change_i2c_address", new_address, plan, FALSE, "", r.reached, r.st)

Pump_dispense_volume ==
    \E volume \in Volumes, plan \in PumpPlans :
        \E r \in {dispense_volume(PCur, plan, volume)} :
            PumpStep("dispense_volume", volume, plan, r.err, r.cls, "", r.st)

\* __init__: the address is kept, no handle, nothing detected
InitPump ==
    /\ NoBoard
    /\ NoSession
    /\ NoController
    /\ i2c_address \in PumpAddresses
    /\ device = NoDevice
    /\ detected_i2c_devices = {}
    /\ pcall = [op |-> "init", arg |-> 0, err |-> FALSE, cls |-> "", reached |-> "",
                plan |-> [failAt |-> 0, how |-> "raise"], log |-> <<>>, failed |-> 0]
    /\ pn = 0

NextPump == Pump_change_i2c_address \/ Pump_dispense_volume

SpecPump == InitPump /\ [][NextPump]_vars

\* the positions in the log of call c at which a command was sent
Sent(c) == {i \in 1 .. Len(c.log) : c.log[i].t \in {"query", "write"}}

\* C31: change_i2c_address sends a command only after the bus scan
\* succeeded, the current address was found in the scan result and the
\* handle was created, in this order; when one of these steps fails no
\* command is sent; and "I2C,<new>" is sent only after "Plock,0".
C31_CommandsAfterDetection ==
    pcall.op = "change_i2c_address"
        => /\ Sent(pcall) # {}
                => /\ pcall.log[1].t = "scan"
                   /\ pcall.log[2].t = "new"
                   /\ \A i \in Sent(pcall) : i > 2
                   /\ pcall.failed \notin {1, 2}
                   /\ i2c_address \in detected_i2c_devices
                   /\ device = i2c_address
           /\ (pcall.failed \in {1, 2} \/ pcall.reached \in {"bus", "device", "configure"})
                => Sent(pcall) = {}
           /\ \A i \in Sent(pcall) :
                pcall.log[i].cmd = "I2C," \o ToString(pcall.arg)
                    => \E j \in Sent(pcall) : j < i /\ pcall.log[j].cmd = "Plock,0"

\* C31 witness: a change_i2c_address call that sent "Plock,0" and then the
\* address-change command.
C31_Witness ==
    /\ pcall.op = "change_i2c_address"
    /\ pcall.failed = 0
    /\ Len(pcall.log) = 4
    /\ pcall.log[3].cmd = "Plock,0"
    /\ pcall.log[4].cmd = "I2C," \o ToString(pcall.arg)

\* C32: _dispense_volume writes "D,<volume>" and returns error flag false
\* when the bus scan succeeds, the pump is detected and the handle exists;
\* it returns the detection error only when the scan or the detection
\* fails.
C32_DispenseWritesCommand ==
    pcall.op = "dispense_volume"
        => /\ (pcall.plan.failAt = 0 /\ device # NoDevice)
                => /\ ~pcall.err
                   /\ \E i \in Sent(pcall) :
                        pcall.log[i].cmd = "D," \o ToString(pcall.arg)
           /\ (pcall.err /\ pcall.cls = "detect") => pcall.plan.failAt = 1

-----------------------------------------------------------------------------
(* Successive flip calls on the GPIO board *)

\* what rprev keeps of a call when the register before it is compared with
\* the register after the next call
LiteReg(c) == Lite(c) @@ [gpio |-> c.gpio]

Twice_flip ==
    \E port \in Ports, f1 \in {"none", "read"}, f2 \in Faults :
        /\ f1 = "read" => f2 = "none"
        /\ FlipCallWith(port, f1, f2, LiteReg(rcall))

SpecTwice == InitGpio /\ [][Twice_flip]_vars

\* C33: flip is an involution: after two successive flip(port) calls on the
\* same port, neither of which met a transport failure, the value register
\* equals its value before the first of the two calls, for every port and
\* every starting value.
C33_FlipTwiceRestores ==
    (/\ rprev.op = "flip" /\ rcall.op = "flip"
     /\ rprev.port = rcall.port
     /\ ~rprev.err /\ ~rcall.err)
        => gpio = rprev.gpio

\* C33 witness: two flips of port 15; the first changed the register, the
\* second restored it.
C33_Witness ==
    /\ rprev.op = "flip" /\ rcall.op = "flip"
    /\ rprev.port = port_count - 1 /\ rcall.port = port_count - 1
    /\ ~rprev.err /\ ~rcall.err
    /\ rcall.gpio # rprev.gpio
    /\ gpio = rprev.gpio

-----------------------------------------------------------------------------
(* Controller.compute; pH values in hundredths, kp in hundredths, so the
   control output kp * error is in ten-thousandths *)

\* the measurements given to compute: 3.00 up to MaxMeasurement
MinMeasurement == 300

MaxMeasurement == 950

Measurements == MinMeasurement .. MaxMeasurement

\* Controller.__init__: the attributes it sets, with the defaults
\* target_low 5.5, target_high 6.5, crit_low 4, crit_high 8.5, kp 0.01;
\* main() passes unit_name="pH" and kp
NewController(unit_name, kp) ==
    [unit_name |-> unit_name, target_low |-> 550, target_high |-> 650,
     crit_low |-> 400, crit_high |-> 850, kp |-> kp]

\* the result of compute: (warning, message, output), or raised when an
\* exception left the call
ComputeResult(raised, warning, msg, out) ==
    [raised |-> raised, warning |-> warning, msg |-> msg, out |-> out]

\* compute: the last branch reads self.target, an attribute that exists
\* only if __init__ set it
compute(c, measurement) ==
    IF c.target_low <= measurement /\ measurement <= c.target_high
    THEN ComputeResult(FALSE, FALSE, "", 0)
    ELSE IF c.crit_low > measurement \/ c.crit_high < measurement
    THEN ComputeResult(FALSE, TRUE,
                       IF c.crit_low > measurement THEN "critical low" ELSE "critical high",
                       0)
    ELSE IF "target" \notin DOMAIN c
    THEN ComputeResult(TRUE, FALSE, "", 0)
    ELSE ComputeResult(FALSE, FALSE, "", c.kp * (c.target - measurement))

Ctl_compute ==
    /\ \E measurement \in Measurements :
        \E r \in {compute(controller, measurement)} :
            ccall' = [op |-> "compute", measurement |-> measurement,
                      raised |-> r.raised, warning |-> r.warning,
                      msg |-> r.msg, out |-> r.out]
    /\ UNCHANGED controller
    /\ UNCHANGED <<regVars, sessVars, testVars, raceVars, pumpVars>>

\* controller = Controller(unit_name="pH", kp=float(kp)) with kp = 0.01
InitController ==
    /\ NoBoard
    /\ NoSession
    /\ NoPump
    /\ controller = NewController("pH", 1)
    /\ ccall = [op |-> "init", measurement |-> 0, raised |-> FALSE,
                warning |-> FALSE, msg |-> "", out |-> 0]

NextController == Ctl_compute

SpecController == InitController /\ [][NextController]_vars

\* C34: compute returns a result tuple for every measurement and never
\* raises: (no warning, output 0) inside the target band; (warning, output
\* 0) below crit_low or above crit_high; and (no warning, kp * (target -
\* measurement)), for a target inside the band, between the critical limits
\* and outside the band.
C34_ComputeTotal ==
    ccall.op = "compute"
        => /\ ~ccall.raised
           /\ (controller.target_low <= ccall.measurement
               /\ ccall.measurement <= controller.target_high)
                => (~ccall.warning /\ ccall.out = 0)
           /\ (ccall.measurement < controller.crit_low
               \/ ccall.measurement > controller.crit_high)
                => (ccall.warning /\ ccall.out = 0)
           /\ (/\ controller.crit_low <= ccall.measurement
               /\ ccall.measurement <= controller.crit_high
               /\ (ccall.measurement < controller.target_low
                   \/ ccall.measurement > controller.target_high))
                => /\ ~ccall.warning
                   /\ \E target \in controller.target_low .. controller.target_high :
                        ccall.out = controller.kp * (target - ccall.measurement)
====
